---- MODULE Spec2Model ----
(***************************************************************************)
(* Model of budget.py, a Streamlit budget dashboard.                       *)
(*                                                                         *)
(* The script is re-executed top to bottom on every user interaction.  A   *)
(* step of the model is one interaction: the button handler in the         *)
(* sidebar, the st.rerun() it may request, and the rendering of the main   *)
(* area that ends the (re)run.  The state is the session state (the two    *)
(* lists), the button pressed last, and what the last script run rendered. *)
(*                                                                         *)
(* Amounts are whole currency units.  On whole units the sums and          *)
(* differences of the script are exact in double precision and its         *)
(* comparisons (with x * 0.20, with a / b * 100) come out as in exact      *)
(* arithmetic, which is what the model computes: products with 0.50, 0.30  *)
(* and 0.20 are kept in hundredths, quotients as numerator/denominator     *)
(* pairs.  Amounts with a fractional part, where binary rounding can       *)
(* differ from decimal arithmetic, are outside the model.                  *)
(*                                                                         *)
(* The lists are capped at MaxIncome and MaxExpenses entries; the user's   *)
(* inputs are drawn from the sets InputNames, IncomeAmounts,               *)
(* ExpenseAmounts, InputCategories and InputPriorities.                    *)
(***************************************************************************)
EXTENDS Integers, Sequences, FiniteSets, TLC

VARIABLES income_sources, expenses, clicked, view

vars == <<income_sources, expenses, clicked, view>>

\* ---------------------------------------------------------------- bounds
MaxIncome == 2
MaxExpenses == 2

\* ---------------------------------------------------------------- inputs
expense_categories ==
    << "Housing (Rent/Mortgage)", "Utilities", "Transportation",
       "Food & Groceries", "Insurance", "Debt Payments", "Entertainment",
       "Subscriptions", "Healthcare", "Savings", "Other" >>

priority_options == << "Low", "Medium", "High", "Critical" >>

priority_order == << "Critical", "High", "Medium", "Low" >>

Range(s) == { s[i] : i \in DOMAIN s }

\* the values the model's user types or selects: an empty and a non-empty
\* name, a zero and positive amounts, some of the categories and priorities
InputNames == { "", "Rent" }
IncomeAmounts == { 0, 5 }
ExpenseAmounts == { 0, 2, 3 }
InputCategories == { "Utilities", "Other" }
InputPriorities == { "Low", "Medium", "Critical" }

\* ------------------------------------------------------------ aggregates
\* sum(item['amount'] for item in items[1..n]), accumulated left to right
RECURSIVE SumAmounts(_, _)
SumAmounts(items, n) ==
    IF n = 0 THEN 0 ELSE SumAmounts(items, n - 1) + items[n].amount

\* faulty variant: the last entry is left out of the sum
total_income_DropsLast(inc) ==
    IF inc = << >> THEN 0 ELSE SumAmounts(inc, Len(inc) - 1)

total_income(inc) == SumAmounts(inc, Len(inc))

total_expenses(exp) == SumAmounts(exp, Len(exp))

remaining_balance(ti, te) == ti - te

\* a quotient the script evaluates, kept exact
Quot(site, n, d) == [site |-> site, num |-> n, den |-> d]

\* faulty variant: the percentage is computed without income too
DeltaShown_Always(ti) == TRUE

\* delta of the Remaining Balance metric
DeltaShown(ti) == ti > 0

DeltaDivisions(rb, ti) ==
    IF DeltaShown(ti) THEN { Quot("delta", rb * 100, ti) } ELSE {}

\* faulty variant: a later row replaces the sum of its key
RECURSIVE GroupBySum_Overwrite(_, _, _)
GroupBySum_Overwrite(df, col, n) ==
    IF n = 0 THEN << >>
    ELSE LET sums == GroupBySum_Overwrite(df, col, n - 1)
             k == df[n][col]
         IN  IF k \in DOMAIN sums
               THEN [sums EXCEPT ![k] = df[n].amount]
               ELSE sums @@ (k :> df[n].amount)

\* expenses_df.groupby(col)['amount'].sum() over the rows df[1..n]: the
\* amounts are accumulated per key, a key has a sum once a row has it
RECURSIVE GroupBySum(_, _, _)
GroupBySum(df, col, n) ==
    IF n = 0 THEN << >>
    ELSE LET sums == GroupBySum(df, col, n - 1)
             k == df[n][col]
         IN  IF k \in DOMAIN sums
               THEN [sums EXCEPT ![k] = @ + df[n].amount]
               ELSE sums @@ (k :> df[n].amount)

\* the orders .sort_values(ascending=False) may give to the keys K of a
\* summary: a key with the largest sum first, then the others likewise;
\* the sort is not stable, keys with equal sums come in any order
RECURSIVE SortValuesDescending(_, _)
SortValuesDescending(summary, K) ==
    IF K = {} THEN { << >> }
    ELSE UNION { { << k >> \o rest : rest \in SortValuesDescending(summary, K \ {k}) } :
                 k \in { m \in K : \A j \in K : summary[m] >= summary[j] } }

\* percentage of a row of the priority list
PriorityPercentage(amount, te) ==
    IF te > 0 THEN Quot("priority", amount * 100, te) ELSE Quot("none", 0, 1)

\* the rows of "Expense Summary by Priority", in the order ord
PriorityText(summary, ord, te) ==
    [ i \in DOMAIN ord |->
        [ priority |-> ord[i], amount |-> summary[ord[i]],
          percentage |-> PriorityPercentage(summary[ord[i]], te) ] ]

\* faulty variant: the rows stay in the key order of groupby
PriorityBar_KeyOrder(summary) ==
    LET present == SelectSeq(<< "Critical", "High", "Low", "Medium" >>,
                             LAMBDA p : p \in DOMAIN summary)
    IN  [ i \in DOMAIN present |->
            [ priority |-> present[i], amount |-> summary[present[i]] ] ]

\* bar chart: the summary sorted as a Categorical over priority_order
PriorityBar(summary) ==
    LET present == SelectSeq(priority_order, LAMBDA p : p \in DOMAIN summary)
    IN  [ i \in DOMAIN present |->
            [ priority |-> present[i], amount |-> summary[present[i]] ] ]

\* 50/30/20 targets, in hundredths
needs_budget(ti) == ti * 50

wants_budget(ti) == ti * 30

savings_budget(ti) == ti * 20

\* faulty variant: a balance of exactly 20% counts as low
BudgetAnalysis_Inclusive(rb, ti) ==
    IF rb < 0 THEN "DEFICIT"
    ELSE IF rb * 100 <= savings_budget(ti) THEN "LOW_SAVINGS"
    ELSE "HEALTHY"

\* the if / elif / else of "Your Budget Analysis"
BudgetAnalysis(rb, ti) ==
    IF rb < 0 THEN "DEFICIT"
    ELSE IF rb * 100 < savings_budget(ti) THEN "LOW_SAVINGS"
    ELSE "HEALTHY"

\* faulty variant: the ratio is analysed without expenses too
RatioShown_Always(te) == TRUE

\* expense ratio analysis
RatioShown(te) == te > 0

\* faulty variant: the warning starts at exactly 80%
RatioNote_AtLeast80(te, ti) ==
    IF te * 100 >= 80 * ti THEN "HIGH"
    ELSE IF te * 100 <= 50 * ti THEN "HEALTHY"
    ELSE "NONE"

RatioNote(te, ti) ==
    IF te * 100 > 80 * ti THEN "HIGH"
    ELSE IF te * 100 <= 50 * ti THEN "HEALTHY"
    ELSE "NONE"

\* ------------------------------------------------------------- rendering
\* what one run of the script shows for the given session state; ord is
\* the order sort_values gave to the priority summary
Render(inc, exp, ord) ==
    LET ti == total_income(inc)
        te == total_expenses(exp)
        rb == remaining_balance(ti, te)
        tabs == ~ (ti = 0 /\ Len(exp) = 0)
        charts == tabs /\ exp # << >>
        rec == tabs /\ ti > 0
        ratio == rec /\ RatioShown(te)
        priority_summary == GroupBySum(exp, "priority", Len(exp))
        rows == IF charts THEN PriorityText(priority_summary, ord, te) ELSE << >>
    IN  [ total_income |-> ti,
          total_expenses |-> te,
          remaining_balance |-> rb,
          delta |-> IF DeltaShown(ti) THEN "pct" ELSE "N/A",
          start_info |-> ~ tabs,
          priority_text |-> rows,
          category_pie |-> IF charts THEN GroupBySum(exp, "category", Len(exp)) ELSE << >>,
          priority_bar |-> IF charts THEN PriorityBar(priority_summary) ELSE << >>,
          needs_budget |-> IF rec THEN needs_budget(ti) ELSE 0,
          wants_budget |-> IF rec THEN wants_budget(ti) ELSE 0,
          savings_budget |-> IF rec THEN savings_budget(ti) ELSE 0,
          assessment |-> IF rec THEN BudgetAnalysis(rb, ti) ELSE "NONE",
          ratio_shown |-> ratio,
          ratio_note |-> IF ratio THEN RatioNote(te, ti) ELSE "NONE",
          guidance |-> tabs /\ ~ (ti > 0),
          divisions |-> DeltaDivisions(rb, ti)
                        \cup { rows[i].percentage : i \in DOMAIN rows }
                        \cup (IF ratio THEN { Quot("ratio", te * 100, ti) } ELSE {}) ]

Renders(inc, exp) ==
    LET priority_summary == GroupBySum(exp, "priority", Len(exp))
    IN  { Render(inc, exp, ord) :
            ord \in SortValuesDescending(priority_summary, DOMAIN priority_summary) }

\* ------------------------------------------------------------------ init
Init ==
    /\ income_sources = << >>
    /\ expenses = << >>
    /\ clicked = "none"
    /\ view \in Renders(<< >>, << >>)

\* --------------------------------------------------------------- actions
\* faulty variant: the amount is not tested
IncomeAccepted_NameOnly(income_name, income_amount) ==
    income_name # ""

\* if income_name and income_amount > 0
IncomeAccepted(income_name, income_amount) ==
    income_name # "" /\ income_amount > 0

AppendIncome(inc, income_name, income_amount) ==
    Append(inc, [name |-> income_name, amount |-> income_amount])

\* the handler of "Add Income" with the given widget values
AddIncomeHandler(income_name, income_amount) ==
    /\ clicked' = "AddIncome"
    /\ IF IncomeAccepted(income_name, income_amount)
         THEN /\ Len(income_sources) < MaxIncome
              /\ income_sources' =
                    AppendIncome(income_sources, income_name, income_amount)
         ELSE income_sources' = income_sources
    /\ expenses' = expenses

\* a press of "Add Income": the handler, then the (re)run that renders
AddIncome ==
    \E income_name \in InputNames, income_amount \in IncomeAmounts :
        /\ AddIncomeHandler(income_name, income_amount)
        /\ view' \in Renders(income_sources', expenses')

\* if expense_name and expense_amount > 0
ExpenseAccepted(expense_name, expense_amount) ==
    expense_name # "" /\ expense_amount > 0

\* faulty variant: the entry is put at the front
AppendExpense_Prepend(exp, expense_category, expense_name, expense_amount, expense_priority) ==
    << [category |-> expense_category, name |-> expense_name,
        amount |-> expense_amount, priority |-> expense_priority] >> \o exp

AppendExpense(exp, expense_category, expense_name, expense_amount, expense_priority) ==
    Append(exp, [category |-> expense_category, name |-> expense_name,
                 amount |-> expense_amount, priority |-> expense_priority])

\* the handler of "Add Expense" with the given name and amount; the
\* category and the priority are read when the entry is built
AddExpenseHandler(expense_name, expense_amount) ==
    /\ clicked' = "AddExpense"
    /\ IF ExpenseAccepted(expense_name, expense_amount)
         THEN /\ Len(expenses) < MaxExpenses
              /\ \E expense_category \in InputCategories,
                    expense_priority \in InputPriorities :
                    expenses' = AppendExpense(expenses, expense_category,
                                    expense_name, expense_amount, expense_priority)
         ELSE expenses' = expenses
    /\ income_sources' = income_sources

\* a press of "Add Expense": the handler, then the (re)run that renders
AddExpense ==
    \E expense_name \in InputNames, expense_amount \in ExpenseAmounts :
        /\ AddExpenseHandler(expense_name, expense_amount)
        /\ view' \in Renders(income_sources', expenses')

ClearedExpenses(exp) == << >>

\* faulty variant: the income list is not reset
ClearedIncome_Kept(inc) == inc

ClearedIncome(inc) == << >>

\* a press of "Clear All Data": the handler, then the rerun that renders
ClearAll ==
    /\ clicked' = "ClearAll"
    /\ expenses' = ClearedExpenses(expenses)
    /\ income_sources' = ClearedIncome(income_sources)
    /\ view' \in Renders(income_sources', expenses')

Next == AddIncome \/ AddExpense \/ ClearAll

Spec == Init /\ [][Next]_vars

\* ------------------------------------------------------------ properties
\* the sum of the amounts of the entries with index in S, in no order
RECURSIVE SumOver(_, _)
SumOver(S, items) ==
    IF S = {} THEN 0
    ELSE LET i == CHOOSE j \in S : TRUE
         IN  items[i].amount + SumOver(S \ {i}, items)

EntriesTotal(items) == SumOver(DOMAIN items, items)

\* the sum of the values of a summary
RECURSIVE SummaryTotal(_, _)
SummaryTotal(summary, K) ==
    IF K = {} THEN 0
    ELSE LET k == CHOOSE j \in K : TRUE
         IN  summary[k] + SummaryTotal(summary, K \ {k})

\* the sum of the amounts of the rows of a displayed list
RowsTotal(rows) == SumOver(DOMAIN rows, rows)

\* the priorities of a displayed list, in display order
Shown(rows) == [ i \in DOMAIN rows |-> rows[i].priority ]

Rank(p) == CHOOSE i \in DOMAIN priority_order : priority_order[i] = p

\* a list of priorities runs Critical, High, Medium, Low
InPriorityOrder(ps) ==
    \A i, j \in DOMAIN ps : i < j => Rank(ps[i]) < Rank(ps[j])

\* a displayed list runs from the largest sum to the smallest
InDescendingAmounts(rows) ==
    \A i, j \in DOMAIN rows : i < j => rows[i].amount >= rows[j].amount

StoredPriorities == { expenses[i].priority : i \in DOMAIN expenses }

StoredCategories == { expenses[i].category : i \in DOMAIN expenses }

\* C1: the displayed total income and total expenses are the sums of the
\* amounts of the entries in the store, whatever the order of the entries.
C1_TotalsMatchStore ==
    /\ view.total_income = EntriesTotal(income_sources)
    /\ view.total_expenses = EntriesTotal(expenses)

C1_Witness ==
    /\ Len(income_sources) = 2
    /\ Len(expenses) = 2
    /\ expenses[1].amount # expenses[2].amount
    /\ clicked = "AddIncome"

\* C2: a press of Add Income or Add Expense with an empty name or an
\* amount <= 0 appends nothing and leaves both collections as they were.
C2_InvalidAddRejected ==
    [][ /\ \A n \in InputNames, a \in IncomeAmounts :
              ((n = "" \/ a <= 0) /\ AddIncomeHandler(n, a))
                  => (income_sources' = income_sources /\ expenses' = expenses)
        /\ \A n \in InputNames, a \in ExpenseAmounts :
              ((n = "" \/ a <= 0) /\ AddExpenseHandler(n, a))
                  => (income_sources' = income_sources /\ expenses' = expenses)
      ]_vars

C2_Witness ==
    /\ clicked = "AddIncome"
    /\ income_sources = << >>
    /\ Len(expenses) = 1

\* C3: Clear All can be pressed in every state, and the step empties both
\* collections together; what is rendered after it shows zero totals and
\* no breakdown rows.
C3_ClearAllEmptiesBoth ==
    /\ [](ENABLED ClearAll)
    /\ [][ ClearAll =>
             /\ income_sources' = << >>
             /\ expenses' = << >>
             /\ view'.total_income = 0
             /\ view'.total_expenses = 0
             /\ view'.remaining_balance = 0
             /\ view'.category_pie = << >>
             /\ view'.priority_text = << >>
             /\ view'.priority_bar = << >> ]_vars

C3_Witness ==
    /\ clicked = "ClearAll"
    /\ income_sources = << >>
    /\ expenses = << >>
    /\ view.start_info

C5_Original ==
    /\ InPriorityOrder(Shown(view.priority_text))
    /\ InPriorityOrder(Shown(view.priority_bar))

\* C5 (amended): the bar chart shows the priorities that occur in the order
\* Critical, High, Medium, Low; the text list shows them from the largest
\* sum to the smallest.
C5_BarFixedTextBySum ==
    /\ InPriorityOrder(Shown(view.priority_bar))
    /\ Range(Shown(view.priority_bar)) = StoredPriorities
    /\ InDescendingAmounts(view.priority_text)
    /\ Range(Shown(view.priority_text)) = StoredPriorities
    /\ Len(view.priority_text) = Cardinality(StoredPriorities)

C5_Witness ==
    /\ Shown(view.priority_text) = << "Low", "Critical" >>
    /\ Shown(view.priority_bar) = << "Critical", "Low" >>
    /\ expenses[1].priority = "Critical"

\* C6 (as stated): with total income > 0 the expense ratio is shown, with
\* the high note iff ratio > 80, the healthy note iff ratio <= 50 (a ratio
\* of 0 included) and no note in between.
C6_Original ==
    LET ti == EntriesTotal(income_sources)
        te == EntriesTotal(expenses)
    IN  ti > 0 =>
            /\ view.ratio_shown
            /\ view.ratio_note = "HIGH" <=> te * 100 > 80 * ti
            /\ view.ratio_note = "HEALTHY" <=> te * 100 <= 50 * ti
            /\ view.ratio_note = "NONE" <=> (50 * ti < te * 100 /\ te * 100 <= 80 * ti)

\* C6 (amended): the expense ratio and its note are shown only with total
\* income > 0 and total expenses > 0; then the note is high iff ratio > 80,
\* healthy iff ratio <= 50, and absent in between.
C6_RatioNoteNeedsExpenses ==
    LET ti == EntriesTotal(income_sources)
        te == EntriesTotal(expenses)
    IN  /\ view.ratio_shown <=> (ti > 0 /\ te > 0)
        /\ view.ratio_shown =>
            /\ view.ratio_note = "HIGH" <=> te * 100 > 80 * ti
            /\ view.ratio_note = "HEALTHY" <=> te * 100 <= 50 * ti
            /\ view.ratio_note = "NONE" <=> (50 * ti < te * 100 /\ te * 100 <= 80 * ti)
        /\ ~ view.ratio_shown => view.ratio_note = "NONE"

C6_Witness ==
    /\ view.total_income > 0
    /\ view.total_expenses = 0
    /\ ~ view.ratio_shown
    /\ view.ratio_note = "NONE"

\* C7: the per-category sums add up to total expenses, the per-priority
\* sums add up to total expenses, and a category or priority has a row
\* only if a stored expense has it.
C7_BreakdownsPartition ==
    LET te == EntriesTotal(expenses)
    IN  /\ SummaryTotal(view.category_pie, DOMAIN view.category_pie) = te
        /\ RowsTotal(view.priority_bar) = te
        /\ RowsTotal(view.priority_text) = te
        /\ DOMAIN view.category_pie \subseteq StoredCategories
        /\ Range(Shown(view.priority_bar)) \subseteq StoredPriorities
        /\ Range(Shown(view.priority_text)) \subseteq StoredPriorities

C7_Witness ==
    /\ Len(expenses) = 2
    /\ expenses[1].category = expenses[2].category
    /\ expenses[1].priority = expenses[2].priority
    /\ expenses[1].amount # expenses[2].amount
    /\ DOMAIN view.category_pie = { "Other" }

\* C8: every quotient a run of the script evaluates has a divisor > 0, and
\* with total income 0 the balance metric shows N/A, no income ratio is
\* computed, and the recommendations show the add-income guidance.
C8_NoDivisionByZero ==
    /\ \A q \in view.divisions : q.den > 0
    /\ EntriesTotal(income_sources) = 0 =>
          /\ view.delta = "N/A"
          /\ ~ view.ratio_shown
          /\ \A q \in view.divisions : q.site \notin { "delta", "ratio" }
          /\ view.start_info \/ view.guidance

C8_Witness ==
    /\ view.total_income = 0
    /\ Len(expenses) = 2
    /\ view.guidance
    /\ \E q \in view.divisions : q.site = "priority" /\ q.den = view.total_expenses

\* C9: a step leaves both collections alone, or appends one entry at the
\* end of one of them and leaves the other alone, or empties both.
C9_AppendOrClearOnly ==
    [][ \/ (income_sources' = income_sources /\ expenses' = expenses)
        \/ /\ Len(income_sources') = Len(income_sources) + 1
           /\ SubSeq(income_sources', 1, Len(income_sources)) = income_sources
           /\ expenses' = expenses
        \/ /\ Len(expenses') = Len(expenses) + 1
           /\ SubSeq(expenses', 1, Len(expenses)) = expenses
           /\ income_sources' = income_sources
        \/ (income_sources' = << >> /\ expenses' = << >>)
      ]_vars

C9_Witness ==
    /\ clicked = "AddExpense"
    /\ Len(expenses) = 2
    /\ expenses[1] # expenses[2]
    /\ Len(income_sources) = 1

====
